---- MODULE Spec2Model ----
(***************************************************************************)
(* Smart PDF Compressor (src/src/app.py): one run of the Streamlit script. *)
(*                                                                         *)
(* The script is executed top to bottom for one state of the widgets (the  *)
(* uploaded file, the compression level, whether the run was triggered by  *)
(* the "Compress PDF" button).  The PDF library (fitz) is an external      *)
(* collaborator: a document is modelled by what the script reads from it   *)
(* (page rectangles, content blocks with a type tag and a bounding box),   *)
(* and by the calls the script makes on it (new_page, get_pixmap,          *)
(* get_svg_image, insert_image, save, close).  A library call that can     *)
(* raise is modelled as a choice between returning and raising.            *)
(*                                                                         *)
(* Areas are integers here.  The script compares float quotients with the  *)
(* literals 0.5, 0.3, 0.2 and 0.6; IEEE division and literal parsing are   *)
(* both correctly rounded, so for the small integer areas used here        *)
(* a / b > 0.3 holds exactly when 10 * a > 3 * b, and likewise for the     *)
(* other literals.  A ratio is kept as the pair [num, den] of the quotient.*)
(***************************************************************************)
EXTENDS Integers, Sequences, FiniteSets, TLC

VARIABLES
    uploaded_file,      \* the upload widget: None or [name, valid, pages]
    compression_level,  \* the select_slider value
    button,             \* st.button(...) of this run
    pc,                 \* position of the script
    doc,                \* the handle fitz.open returned: [state, pages]
    analysis,           \* analyze_pdf's result, or None
    new_doc,            \* the handle a compress_* function creates: [state, pages]
    pixmaps,            \* the get_pixmap calls made so far: <<[page, dpi]>>
    saves,              \* the save calls made so far
    output_bytes,       \* the bytes a compress_* function returned, or None
    report,             \* the metrics shown after compression, or None
    downloads,          \* the download buttons rendered in this run
    error               \* the exception that ended the run, or None

vars == <<uploaded_file, compression_level, button, pc, doc, analysis, new_doc,
          pixmaps, saves, output_bytes, report, downloads, error>>

None == [none |-> TRUE]

-----------------------------------------------------------------------------
(* Bounds of the model *)

\* Longest document of the main specification.
MaxPages == 3

\* Longest document of the document-classifier specification.
MaxDomPages == 10

-----------------------------------------------------------------------------
(* Inputs: pages as the script sees them *)

Levels == {"Low", "Medium", "High"}

\* block["type"] and fitz.Rect(block["bbox"]).width / .height
Blk(t, w, h) == [type |-> t, width |-> w, height |-> h]

\* page.rect.width, page.rect.height and page.get_text("dict")["blocks"]
Pg(w, h, bs) == [width |-> w, height |-> h, blocks |-> bs]

\* The pages documents are built from: every branch of the per-page rule and
\* both sides of each threshold (page area 100 unless stated).
SamplePages ==
    { Pg(10, 10, << Blk(1, 5, 10) >>),                 \* image 0.5 exactly
      Pg(20, 5,  << Blk(1, 17, 3) >>),                 \* image 0.51
      Pg(10, 10, << Blk(0, 3, 10) >>),                 \* text 0.3 exactly
      Pg(10, 10, << Blk(0, 4, 10), Blk(1, 2, 10) >>),  \* text 0.4, image 0.2 exactly
      Pg(10, 10, << Blk(0, 2, 10), Blk(1, 1, 10), Blk(0, 2, 10), Blk(2, 9, 9) >>),
                                                       \* text 0.4 in two blocks, image 0.1
      Pg(0, 10,  << Blk(0, 4, 10), Blk(1, 8, 10) >>),  \* page of area 0
      Pg(10, 20, << Blk(1, 10, 10), Blk(1, 10, 10), Blk(0, 10, 10) >>) }
                                                       \* overlapping: image 1.0, text 0.5

\* One page of each label, for long documents.
LabelPages ==
    { Pg(10, 10, << Blk(1, 6, 10) >>),
      Pg(10, 10, << Blk(0, 4, 10) >>),
      Pg(10, 10, << >>) }

SeqsUpTo(S, n) == UNION { [1..k -> S] : k \in 0..n }

FileNames == {"a.pdf", "b.pdf"}

\* len(input_bytes) of the uploads, and the lengths len(output_bytes) can have
\* (the library's encoder decides the length).
InputSizes == {1000}
OutputSizes == {300, 960, 1100}

-----------------------------------------------------------------------------
(* analyze_pdf *)

\* The block loop of one page: <<text_area, image_area>> after the first k blocks.
RECURSIVE BlockAreas(_, _)
BlockAreas(blocks, k) ==
    IF k = 0 THEN <<0, 0>>
    ELSE LET prev  == BlockAreas(blocks, k - 1)
             block == blocks[k]
             area  == block.width * block.height
         IN  IF block.type = 0 THEN <<prev[1] + area, prev[2]>>
             ELSE IF block.type = 1 THEN <<prev[1], prev[2] + area>>
             ELSE prev

\* x / total_area if total_area > 0 else 0
Ratio(x, total_area) ==
    IF total_area > 0 THEN [num |-> x, den |-> total_area] ELSE [num |-> 0, den |-> 1]

\* r > a/b and r < a/b for a ratio r and the literal a/b
RatioGt(r, a, b) == r.num * b > a * r.den
RatioLt(r, a, b) == r.num * b < a * r.den

\* Variant: the thresholds 0.5 and 0.3 compared with >= .
page_type_nonstrict(image_ratio, text_ratio) ==
    IF ~RatioLt(image_ratio, 1, 2) THEN "image"
    ELSE IF ~RatioLt(text_ratio, 3, 10) /\ RatioLt(image_ratio, 1, 5) THEN "text"
    ELSE "mixed"

\* The if / elif / else of one page.
page_type(image_ratio, text_ratio) ==
    IF RatioGt(image_ratio, 1, 2) THEN "image"
    ELSE IF RatioGt(text_ratio, 3, 10) /\ RatioLt(image_ratio, 1, 5) THEN "text"
    ELSE "mixed"

\* The body of the page loop for one page: its page_stats entry.
page_stat(page) ==
    LET areas       == BlockAreas(page.blocks, Len(page.blocks))
        total_area  == page.width * page.height
        image_ratio == Ratio(areas[2], total_area)
        text_ratio  == Ratio(areas[1], total_area)
    IN  [type |-> page_type(image_ratio, text_ratio),
         image_ratio |-> image_ratio,
         text_ratio |-> text_ratio]

\* Variant: the counter is incremented outside its branch.
Bump_unconditional(c, type, label) == c + 1

Bump(c, type, label) == IF type = label THEN c + 1 ELSE c

\* The page loop: counters and page_stats after the first k pages.
RECURSIVE PageLoop(_, _)
PageLoop(pages, k) ==
    IF k = 0
    THEN [image_heavy_pages |-> 0, text_heavy_pages |-> 0, mixed_pages |-> 0,
          page_stats |-> << >>]
    ELSE LET prev == PageLoop(pages, k - 1)
             stat == page_stat(pages[k])
         IN  [image_heavy_pages |-> Bump(prev.image_heavy_pages, stat.type, "image"),
              text_heavy_pages  |-> Bump(prev.text_heavy_pages, stat.type, "text"),
              mixed_pages       |-> Bump(prev.mixed_pages, stat.type, "mixed"),
              page_stats        |-> Append(prev.page_stats, stat)]

\* Variant: the threshold 0.6 compared with >= .
dominant_type_nonstrict(image_heavy_pages, text_heavy_pages, total_pages) ==
    IF 10 * image_heavy_pages >= 6 * total_pages THEN "image-heavy"
    ELSE IF 10 * text_heavy_pages >= 6 * total_pages THEN "text-heavy"
    ELSE "mixed"

\* "Determine dominant type"; total_pages > 0, else the division raises.
dominant_type(image_heavy_pages, text_heavy_pages, total_pages) ==
    IF 10 * image_heavy_pages > 6 * total_pages THEN "image-heavy"
    ELSE IF 10 * text_heavy_pages > 6 * total_pages THEN "text-heavy"
    ELSE "mixed"

\* The dict analyze_pdf returns for a document with at least one page.
analyze_pdf(pages) ==
    LET total_pages == Len(pages)
        loop        == PageLoop(pages, total_pages)
    IN  [dominant |-> dominant_type(loop.image_heavy_pages, loop.text_heavy_pages,
                                    total_pages),
         total_pages       |-> total_pages,
         image_heavy_pages |-> loop.image_heavy_pages,
         text_heavy_pages  |-> loop.text_heavy_pages,
         mixed_pages       |-> loop.mixed_pages,
         page_stats        |-> loop.page_stats]

-----------------------------------------------------------------------------
(* Documents as the library holds and saves them *)

\* A page of a document being written: its size, the content it carries over
\* from the source page, and the images insert_image put on it.
OutPage(w, h, bs, imgs) == [width |-> w, height |-> h, blocks |-> bs, images |-> imgs]

\* pix.tobytes("jpeg", jpg_quality=quality) of page i rendered at dpi
Jpeg(i, dpi, quality) == [format |-> "jpeg", page |-> i, dpi |-> dpi, quality |-> quality]

\* page.get_svg_image().encode("utf-8") of page i
Svg(i) == [format |-> "svg", page |-> i, dpi |-> 0, quality |-> 0]

\* The pages of the source document, as save writes them.
RECURSIVE SourcePages(_, _)
SourcePages(pages, k) ==
    IF k = 0 THEN << >>
    ELSE Append(SourcePages(pages, k - 1),
                OutPage(pages[k].width, pages[k].height, pages[k].blocks, << >>))

\* The keyword arguments of a save call (absent ones are the library's defaults).
SaveCall(target, garbage, deflate, deflate_images, deflate_fonts, clean, linear) ==
    [target |-> target, garbage |-> garbage, deflate |-> deflate,
     deflate_images |-> deflate_images, deflate_fonts |-> deflate_fonts,
     clean |-> clean, linear |-> linear]

\* The bytes a save call writes: the pages written and the options used.
Saved(pages, call) == [pages |-> pages, options |-> call]

\* Variant: the Medium and High entries of dpi_map exchanged.
compress_image_heavy_dpi_map_swapped == [Low |-> 150, Medium |-> 80, High |-> 110]

\* dpi_map and quality_map of compress_image_heavy
compress_image_heavy_dpi_map == [Low |-> 150, Medium |-> 110, High |-> 80]
compress_image_heavy_quality_map == [Low |-> 92, Medium |-> 85, High |-> 75]

\* dpi_map and quality_map of compress_mixed
compress_mixed_dpi_map == [Low |-> 150, Medium |-> 110, High |-> 80]
compress_mixed_quality_map == [Low |-> 92, Medium |-> 85, High |-> 75]

NoHandle == [state |-> "none", pages |-> << >>]

-----------------------------------------------------------------------------
(* Size report *)

\* f"{x:.1f} KB" / f"{x:.2f} MB": the number printed, in tenths of a KB or
\* hundredths of a MB (rounded to nearest; none of the sizes used is a tie).
format_size(size_bytes) ==
    IF size_bytes < 1024 * 1024
    THEN [value |-> (size_bytes * 20 + 1024) \div 2048, unit |-> "KB"]
    ELSE [value |-> (size_bytes * 200 + 1024 * 1024) \div (2 * 1024 * 1024), unit |-> "MB"]

\* reduction = (1 - output_size / input_size) * 100, compared with c
ReductionLt(input_size, output_size, c) == 100 * (input_size - output_size) < c * input_size
ReductionGt(input_size, output_size, c) == 100 * (input_size - output_size) > c * input_size

-----------------------------------------------------------------------------
(* The script *)

Uploads(docs) ==
    [name : FileNames, valid : {TRUE}, size : InputSizes, pages : docs]
    \cup [name : FileNames, valid : {FALSE}, size : InputSizes, pages : {<< >>}]

InitWith(files, levels, buttons) ==
    /\ uploaded_file \in files
    /\ compression_level \in levels
    /\ button \in buttons
    /\ pc = "start"
    /\ doc = NoHandle
    /\ analysis = None
    /\ new_doc = NoHandle
    /\ pixmaps = << >>
    /\ saves = << >>
    /\ output_bytes = None
    /\ report = None
    /\ downloads = << >>
    /\ error = None

Init == InitWith({None} \cup Uploads(SeqsUpTo(SamplePages, MaxPages)), Levels, BOOLEAN)

\* An exception leaves the script where it is raised: Streamlit shows it and
\* the rest of the run is skipped.
Raise(e) ==
    /\ pc' = "error"
    /\ error' = [raised |-> e]

\* if uploaded_file: (nothing uploaded)
no_upload ==
    /\ pc = "start"
    /\ uploaded_file = None
    /\ pc' = "done"
    /\ UNCHANGED <<uploaded_file, compression_level, button, doc, analysis, new_doc,
                   pixmaps, saves, output_bytes, report, downloads, error>>

\* input_bytes = uploaded_file.read(); doc = fitz.open(stream=input_bytes, ...)
open_doc ==
    /\ pc = "start"
    /\ uploaded_file # None
    /\ uploaded_file.valid
    /\ doc' = [state |-> "open", pages |-> uploaded_file.pages]
    /\ pc' = "analyze"
    /\ UNCHANGED <<uploaded_file, compression_level, button, analysis, new_doc,
                   pixmaps, saves, output_bytes, report, downloads, error>>

\* fitz.open raises on bytes that are no PDF
open_doc_raises ==
    /\ pc = "start"
    /\ uploaded_file # None
    /\ ~uploaded_file.valid
    /\ Raise("open")
    /\ UNCHANGED <<uploaded_file, compression_level, button, doc, analysis, new_doc,
                   pixmaps, saves, output_bytes, report, downloads>>

\* analysis = analyze_pdf(doc), then the st.info and the breakdown
analyze ==
    /\ pc = "analyze"
    /\ Len(doc.pages) > 0
    /\ analysis' = analyze_pdf(doc.pages)
    /\ pc' = "button"
    /\ UNCHANGED <<uploaded_file, compression_level, button, doc, new_doc,
                   pixmaps, saves, output_bytes, report, downloads, error>>

\* image_heavy_pages / total_pages with total_pages = 0
analyze_raises ==
    /\ pc = "analyze"
    /\ Len(doc.pages) = 0
    /\ Raise("ZeroDivisionError")
    /\ UNCHANGED <<uploaded_file, compression_level, button, doc, analysis, new_doc,
                   pixmaps, saves, output_bytes, report, downloads>>

\* if st.button(...): is False in this run
button_not_pressed ==
    /\ pc = "button"
    /\ ~button
    /\ pc' = "close"
    /\ UNCHANGED <<uploaded_file, compression_level, button, doc, analysis, new_doc,
                   pixmaps, saves, output_bytes, report, downloads, error>>

\* The arm of the dispatch on analysis["dominant"] that the pressed button takes.
Dispatch(label) ==
    /\ pc = "button"
    /\ button
    /\ analysis.dominant = label

\* doc.save(output, garbage=4, deflate=True, deflate_images=True,
\*          deflate_fonts=True, clean=True, linear=True)
TextSave == SaveCall("doc", 4, TRUE, TRUE, TRUE, TRUE, TRUE)

\* new_doc.save(output, garbage=4, deflate=True)
NewDocSave == SaveCall("new_doc", 4, TRUE, FALSE, FALSE, FALSE, FALSE)

\* Variant: the garbage option of the save taken from the level.
compress_text_heavy_by_level ==
    /\ Dispatch("text-heavy")
    /\ LET call == SaveCall("doc", CASE compression_level = "Low" -> 1
                                     [] compression_level = "Medium" -> 2
                                     [] OTHER -> 4,
                            TRUE, TRUE, TRUE, TRUE, TRUE)
       IN  /\ saves' = Append(saves, call)
           /\ output_bytes' = Saved(SourcePages(doc.pages, Len(doc.pages)), call)
    /\ pc' = "report"
    /\ UNCHANGED <<uploaded_file, compression_level, button, doc, analysis, new_doc,
                   pixmaps, report, downloads, error>>

\* compress_text_heavy(doc, compression_level): one save of the source document
compress_text_heavy ==
    /\ Dispatch("text-heavy")
    /\ saves' = Append(saves, TextSave)
    /\ output_bytes' = Saved(SourcePages(doc.pages, Len(doc.pages)), TextSave)
    /\ pc' = "report"
    /\ UNCHANGED <<uploaded_file, compression_level, button, doc, analysis, new_doc,
                   pixmaps, report, downloads, error>>

\* doc.save raises
compress_text_heavy_raises ==
    /\ Dispatch("text-heavy")
    /\ saves' = Append(saves, TextSave)
    /\ Raise("save")
    /\ UNCHANGED <<uploaded_file, compression_level, button, doc, analysis, new_doc,
                   pixmaps, output_bytes, report, downloads>>

\* compress_image_heavy up to new_doc = fitz.open()
compress_image_heavy_begin ==
    /\ Dispatch("image-heavy")
    /\ new_doc' = [state |-> "open", pages |-> << >>]
    /\ pc' = "image_loop"
    /\ UNCHANGED <<uploaded_file, compression_level, button, doc, analysis,
                   pixmaps, saves, output_bytes, report, downloads, error>>

\* The page a compress loop is at: one output page exists per page done.
NextPage == Len(new_doc.pages) + 1

\* Variant: new_page() called without the source page's width and height
\* (the library's default page size).
compress_image_heavy_page_default_size ==
    /\ pc = "image_loop"
    /\ NextPage <= Len(doc.pages)
    /\ LET i       == NextPage
           dpi     == compress_image_heavy_dpi_map[compression_level]
           quality == compress_image_heavy_quality_map[compression_level]
       IN  /\ pixmaps' = Append(pixmaps, [page |-> i, dpi |-> dpi])
           /\ new_doc' = [new_doc EXCEPT !.pages =
                  Append(@, OutPage(595, 842, << >>, << Jpeg(i, dpi, quality) >>))]
    /\ UNCHANGED <<uploaded_file, compression_level, button, pc, doc, analysis,
                   saves, output_bytes, report, downloads, error>>

\* One iteration of compress_image_heavy's loop.
compress_image_heavy_page ==
    /\ pc = "image_loop"
    /\ NextPage <= Len(doc.pages)
    /\ LET i       == NextPage
           page    == doc.pages[i]
           dpi     == compress_image_heavy_dpi_map[compression_level]
           quality == compress_image_heavy_quality_map[compression_level]
       IN  /\ pixmaps' = Append(pixmaps, [page |-> i, dpi |-> dpi])
           /\ new_doc' = [new_doc EXCEPT !.pages =
                  Append(@, OutPage(page.width, page.height, << >>,
                                    << Jpeg(i, dpi, quality) >>))]
    /\ UNCHANGED <<uploaded_file, compression_level, button, pc, doc, analysis,
                   saves, output_bytes, report, downloads, error>>

\* page.get_pixmap or pix.tobytes raises in compress_image_heavy's loop
compress_image_heavy_page_raises ==
    /\ pc = "image_loop"
    /\ NextPage <= Len(doc.pages)
    /\ Raise("render")
    /\ UNCHANGED <<uploaded_file, compression_level, button, doc, analysis, new_doc,
                   pixmaps, saves, output_bytes, report, downloads>>

\* compress_mixed up to new_doc = fitz.open()
compress_mixed_begin ==
    /\ Dispatch("mixed")
    /\ new_doc' = [state |-> "open", pages |-> << >>]
    /\ pc' = "mixed_loop"
    /\ UNCHANGED <<uploaded_file, compression_level, button, doc, analysis,
                   pixmaps, saves, output_bytes, report, downloads, error>>

\* Variant: every page rasterized, page_stats not consulted.
compress_mixed_page_rasterize_all ==
    /\ pc = "mixed_loop"
    /\ NextPage <= Len(doc.pages)
    /\ LET i       == NextPage
           page    == doc.pages[i]
           dpi     == compress_mixed_dpi_map[compression_level]
           quality == compress_mixed_quality_map[compression_level]
       IN  /\ pixmaps' = Append(pixmaps, [page |-> i, dpi |-> dpi])
           /\ new_doc' = [new_doc EXCEPT !.pages =
                  Append(@, OutPage(page.width, page.height, << >>,
                                    << Jpeg(i, dpi, quality) >>))]
    /\ UNCHANGED <<uploaded_file, compression_level, button, pc, doc, analysis,
                   saves, output_bytes, report, downloads, error>>

\* One iteration of compress_mixed's loop.
compress_mixed_page ==
    /\ pc = "mixed_loop"
    /\ NextPage <= Len(doc.pages)
    /\ LET i       == NextPage
           page    == doc.pages[i]
           ptype   == analysis.page_stats[i].type
           dpi     == compress_mixed_dpi_map[compression_level]
           quality == compress_mixed_quality_map[compression_level]
       IN  IF ptype = "text"
           THEN /\ new_doc' = [new_doc EXCEPT !.pages =
                       Append(@, OutPage(page.width, page.height, << >>, << Svg(i) >>))]
                /\ UNCHANGED pixmaps
           ELSE /\ pixmaps' = Append(pixmaps, [page |-> i, dpi |-> dpi])
                /\ new_doc' = [new_doc EXCEPT !.pages =
                       Append(@, OutPage(page.width, page.height, << >>,
                                         << Jpeg(i, dpi, quality) >>))]
    /\ UNCHANGED <<uploaded_file, compression_level, button, pc, doc, analysis,
                   saves, output_bytes, report, downloads, error>>

\* get_svg_image, get_pixmap, tobytes or insert_image raises in compress_mixed's
\* loop: the page new_page made stays in new_doc without an image.
compress_mixed_page_raises ==
    /\ pc = "mixed_loop"
    /\ NextPage <= Len(doc.pages)
    /\ LET page == doc.pages[NextPage]
       IN  new_doc' = [new_doc EXCEPT !.pages =
              Append(@, OutPage(page.width, page.height, << >>, << >>))]
    /\ Raise("render")
    /\ UNCHANGED <<uploaded_file, compression_level, button, doc, analysis,
                   pixmaps, saves, output_bytes, report, downloads>>

\* After either loop: new_doc.save(...); new_doc.close(); return output.getvalue()
compress_save ==
    /\ pc \in {"image_loop", "mixed_loop"}
    /\ NextPage > Len(doc.pages)
    /\ saves' = Append(saves, NewDocSave)
    /\ new_doc' = [new_doc EXCEPT !.state = "closed"]
    /\ output_bytes' = Saved(new_doc.pages, NewDocSave)
    /\ pc' = "report"
    /\ UNCHANGED <<uploaded_file, compression_level, button, doc, analysis,
                   pixmaps, report, downloads, error>>

\* Variant: the exception of new_doc.save caught and the run continued.
compress_save_raises_swallowed ==
    /\ pc \in {"image_loop", "mixed_loop"}
    /\ NextPage > Len(doc.pages)
    /\ saves' = Append(saves, NewDocSave)
    /\ pc' = "report"
    /\ UNCHANGED <<uploaded_file, compression_level, button, doc, analysis, new_doc,
                   pixmaps, output_bytes, report, downloads, error>>

\* new_doc.save raises: new_doc.close() is not reached
compress_save_raises ==
    /\ pc \in {"image_loop", "mixed_loop"}
    /\ NextPage > Len(doc.pages)
    /\ saves' = Append(saves, NewDocSave)
    /\ Raise("save")
    /\ UNCHANGED <<uploaded_file, compression_level, button, doc, analysis, new_doc,
                   pixmaps, output_bytes, report, downloads>>

\* The rest of the button block: the sizes, the reduction, the banners and
\* the download button.
report_and_download ==
    /\ pc = "report"
    /\ \E output_size \in OutputSizes :
          LET input_size == uploaded_file.size
          IN  /\ report' =
                   [original    |-> format_size(input_size),
                    compressed  |-> format_size(output_size),
                    delta_color |-> IF ReductionGt(input_size, output_size, 0)
                                    THEN "normal" ELSE "inverse",
                    banner      |-> IF ReductionLt(input_size, output_size, 5)
                                    THEN "warning"
                                    ELSE IF ReductionGt(input_size, output_size, 60)
                                    THEN "success" ELSE "none"]
              /\ downloads' = Append(downloads,
                                     [file_name |-> "compressed_" \o uploaded_file.name,
                                      data |-> output_bytes])
    /\ pc' = "close"
    /\ UNCHANGED <<uploaded_file, compression_level, button, doc, analysis, new_doc,
                   pixmaps, saves, output_bytes, error>>

\* doc.close(), the last line of the script
close_doc ==
    /\ pc = "close"
    /\ doc' = [doc EXCEPT !.state = "closed"]
    /\ pc' = "done"
    /\ UNCHANGED <<uploaded_file, compression_level, button, analysis, new_doc,
                   pixmaps, saves, output_bytes, report, downloads, error>>

Next ==
    \/ no_upload
    \/ open_doc
    \/ open_doc_raises
    \/ analyze
    \/ analyze_raises
    \/ button_not_pressed
    \/ compress_text_heavy
    \/ compress_text_heavy_raises
    \/ compress_image_heavy_begin
    \/ compress_image_heavy_page
    \/ compress_image_heavy_page_raises
    \/ compress_mixed_begin
    \/ compress_mixed_page
    \/ compress_mixed_page_raises
    \/ compress_save
    \/ compress_save_raises
    \/ report_and_download
    \/ close_doc

Spec == Init /\ [][Next]_vars

\* The document classifier on long documents: a run without the button.
InitDom ==
    InitWith([name : {"a.pdf"}, valid : {TRUE}, size : InputSizes,
              pages : SeqsUpTo(LabelPages, MaxDomPages)],
             {"Medium"}, {FALSE})

NextDom ==
    \/ open_doc
    \/ analyze
    \/ analyze_raises
    \/ button_not_pressed
    \/ close_doc

SpecDom == InitDom /\ [][NextDom]_vars

-----------------------------------------------------------------------------
(* Properties *)

\* The summed area of the blocks of type t on a page.
RECURSIVE TypeArea(_, _)
TypeArea(blocks, t) ==
    IF blocks = << >> THEN 0
    ELSE (IF Head(blocks).type = t THEN Head(blocks).width * Head(blocks).height ELSE 0)
         + TypeArea(Tail(blocks), t)

PageArea(page) == page.width * page.height

\* The label the per-page rule gives a page, from its areas.
RuleLabel(page) ==
    LET total == PageArea(page)
        img   == TypeArea(page.blocks, 1)
        txt   == TypeArea(page.blocks, 0)
    IN  IF total > 0 /\ 2 * img > total THEN "image"
        ELSE IF total > 0 /\ 10 * txt > 3 * total /\ 5 * img < total THEN "text"
        ELSE "mixed"

\* The pages of page_stats that carry a label.
Labelled(label) ==
    { i \in 1..Len(analysis.page_stats) : analysis.page_stats[i].type = label }

Analyzed == analysis # None

\* C1: every page is labelled by first match on its two area ratios (each the
\* summed block area of that type over the page area, 0 for a page of area 0):
\* Image if image ratio > 0.5, else Text if text ratio > 0.3 and image ratio
\* < 0.2, else Mixed; a ratio equal to a threshold does not pass it.
C1_PageRule ==
    Analyzed =>
        \A i \in 1..Len(doc.pages) :
            LET page == doc.pages[i]
                stat == analysis.page_stats[i]
            IN  /\ stat.type = RuleLabel(page)
                /\ IF PageArea(page) > 0
                   THEN /\ stat.image_ratio.num * PageArea(page)
                             = TypeArea(page.blocks, 1) * stat.image_ratio.den
                        /\ stat.text_ratio.num * PageArea(page)
                             = TypeArea(page.blocks, 0) * stat.text_ratio.den
                   ELSE stat.image_ratio.num = 0 /\ stat.text_ratio.num = 0
                /\ (PageArea(page) > 0 /\ 2 * TypeArea(page.blocks, 1) = PageArea(page))
                       => stat.type # "image"
                /\ (PageArea(page) > 0 /\ 10 * TypeArea(page.blocks, 0) = 3 * PageArea(page))
                       => stat.type # "text"

\* A document with a page of image ratio exactly 0.5, a page of text ratio
\* exactly 0.3 and a page of area 0 has been analyzed; all three are Mixed.
C1_Witness ==
    /\ Analyzed
    /\ \E i, j, k \in 1..Len(doc.pages) :
          /\ PageArea(doc.pages[i]) > 0
          /\ 2 * TypeArea(doc.pages[i].blocks, 1) = PageArea(doc.pages[i])
          /\ PageArea(doc.pages[j]) > 0
          /\ 10 * TypeArea(doc.pages[j].blocks, 0) = 3 * PageArea(doc.pages[j])
          /\ PageArea(doc.pages[k]) = 0
          /\ analysis.page_stats[i].type = "mixed"
          /\ analysis.page_stats[j].type = "mixed"
          /\ analysis.page_stats[k].type = "mixed"

\* C2: the dominant label is decided by the page counts alone: ImageHeavy if
\* more than 0.6 of the pages are Image, else TextHeavy if more than 0.6 are
\* Text, else Mixed (7 Image + 1 Text + 2 Mixed is ImageHeavy, 5 Text + 3 Image
\* + 2 Mixed is Mixed, a fraction of exactly 0.6 selects nothing).
C2_DominantRule ==
    Analyzed =>
        LET n   == Len(doc.pages)
            img == Cardinality(Labelled("image"))
            txt == Cardinality(Labelled("text"))
            mix == Cardinality(Labelled("mixed"))
        IN  /\ n > 0
            /\ analysis.dominant =
                   (IF 5 * img > 3 * n THEN "image-heavy"
                    ELSE IF 5 * txt > 3 * n THEN "text-heavy"
                    ELSE "mixed")
            /\ (img = 7 /\ txt = 1 /\ mix = 2) => analysis.dominant = "image-heavy"
            /\ (txt = 5 /\ img = 3 /\ mix = 2) => analysis.dominant = "mixed"
            /\ (5 * img = 3 * n) => analysis.dominant # "image-heavy"
            /\ (5 * txt = 3 * n) => analysis.dominant # "text-heavy"

\* A ten-page document with exactly six Text pages has been analyzed, and its
\* dominant label is Mixed.
C2_Witness ==
    /\ Analyzed
    /\ Len(doc.pages) = 10
    /\ Cardinality(Labelled("text")) = 6
    /\ Cardinality(Labelled("image")) = 3
    /\ analysis.dominant = "mixed"

\* C3: when the run ends, normally or by an exception, neither the source
\* document handle nor a new_doc handle is still open.
C3_HandlesClosedAtExit ==
    pc \in {"done", "error"} => doc.state # "open" /\ new_doc.state # "open"

\* The states of a run whose dispatch took the arm of a dominant label.
OnPath(label) ==
    /\ Analyzed
    /\ button
    /\ analysis.dominant = label
    /\ \/ pc \in {"image_loop", "mixed_loop", "report"}
       \/ saves # << >>
       \/ new_doc.state # "none"
       \/ output_bytes # None

\* The (DPI, quality) table of the levels.
LevelDpi(level) ==
    CASE level = "Low" -> 150 [] level = "Medium" -> 110 [] level = "High" -> 80
LevelQuality(level) ==
    CASE level = "Low" -> 92 [] level = "Medium" -> 85 [] level = "High" -> 75

\* C4: in a Mixed document, page i is treated by page_stats[i]: a Text page is
\* embedded as its SVG rendering and never rasterized, an Image or Mixed page
\* is rasterized and JPEG-encoded with the level's (DPI, quality) pair, and
\* every page of the output carries exactly one embedded image.
C4_MixedPerPage ==
    OnPath("mixed") =>
        /\ \A k \in 1..Len(pixmaps) :
              /\ analysis.page_stats[pixmaps[k].page].type # "text"
              /\ pixmaps[k].dpi = LevelDpi(compression_level)
        /\ output_bytes # None =>
              \A i \in 1..Len(doc.pages) :
                  LET images == output_bytes.pages[i].images
                  IN  /\ Len(images) = 1
                      /\ images[1].page = i
                      /\ IF analysis.page_stats[i].type = "text"
                         THEN images[1].format = "svg"
                         ELSE /\ images[1].format = "jpeg"
                              /\ images[1].dpi = LevelDpi(compression_level)
                              /\ images[1].quality = LevelQuality(compression_level)
                              /\ \E k \in 1..Len(pixmaps) : pixmaps[k].page = i

\* A Mixed document with a Text page and a page that is not Text has been
\* compressed.
C4_Witness ==
    /\ OnPath("mixed")
    /\ output_bytes # None
    /\ Labelled("text") # {}
    /\ Labelled("image") # {}
    /\ Labelled("mixed") # {}

\* C5: in an ImageHeavy document every page, whatever its own label, is
\* rasterized at the level's DPI, JPEG-encoded at the level's quality (Low ->
\* (150, 92), Medium -> (110, 85), High -> (80, 75)) and placed as the single
\* image of a new page of a new document; a higher level never has a higher
\* DPI or quality.
C5_ImageHeavyTable ==
    /\ OnPath("image-heavy") =>
          /\ \A k \in 1..Len(pixmaps) :
                pixmaps[k] = [page |-> k, dpi |-> LevelDpi(compression_level)]
          /\ \A i \in 1..Len(new_doc.pages) :
                new_doc.pages[i].images =
                    << [format |-> "jpeg", page |-> i,
                        dpi |-> LevelDpi(compression_level),
                        quality |-> LevelQuality(compression_level)] >>
          /\ output_bytes # None =>
                /\ output_bytes.options.target = "new_doc"
                /\ output_bytes.pages = new_doc.pages
                /\ Len(output_bytes.pages) = Len(doc.pages)
                /\ Len(pixmaps) = Len(doc.pages)
    /\ \A pair \in {<<"Low", "Medium">>, <<"Medium", "High">>, <<"Low", "High">>} :
          /\ compress_image_heavy_dpi_map[pair[1]] >= compress_image_heavy_dpi_map[pair[2]]
          /\ compress_image_heavy_quality_map[pair[1]]
                >= compress_image_heavy_quality_map[pair[2]]

\* An ImageHeavy document with a page that is not Image has been compressed.
C5_Witness ==
    /\ OnPath("image-heavy")
    /\ output_bytes # None
    /\ Labelled("image") # 1..Len(doc.pages)

\* What a run that failed shows: no download, no metrics, no output.
NothingOffered == downloads = << >> /\ report = None /\ output_bytes = None

\* C6 in a state: a failed run offers nothing; at most one download is ever
\* offered, it is named compressed_<original name>, carries the compressed
\* bytes and comes with the metrics; a finished run whose compression
\* completed has offered it; nothing is saved twice.
C6_State ==
    /\ pc = "error" => NothingOffered
    /\ Len(downloads) <= 1
    /\ Len(saves) <= 1
    /\ downloads # << >> =>
          /\ output_bytes # None
          /\ report # None
          /\ downloads[1].file_name = "compressed_" \o uploaded_file.name
          /\ downloads[1].data = output_bytes
    /\ (pc \in {"close", "done"} /\ output_bytes # None) =>
          Len(downloads) = 1 /\ report # None

\* C6 in a step: nothing runs after a failure, and the download is offered
\* by a step that starts with compression completed.
C6_Step ==
    /\ pc # "error"
    /\ downloads' # downloads => output_bytes # None /\ output_bytes' = output_bytes

\* C6: a failure at any step aborts the run with no download, no partial
\* output and no retry; a run whose compression completes offers exactly one
\* download, compressed_<original name>, with the size metrics, and only
\* after compression has completed.
C6_DownloadOnlyOnSuccess == [](C6_State) /\ [][C6_Step]_vars

\* The save of a new document of three pages has failed.
C6_Witness ==
    /\ pc = "error"
    /\ error = [raised |-> "save"]
    /\ Len(new_doc.pages) = 3
    /\ NothingOffered

\* C7: analyze_pdf is never invoked on a document without pages, and the
\* division by total_pages never raises.
C7_NeverAnalyzeEmpty ==
    /\ pc = "analyze" => Len(doc.pages) > 0
    /\ error # [raised |-> "ZeroDivisionError"]

\* C8: on the TextHeavy path, whatever the level, the only library call is one
\* save of the source document with garbage=4, deflate, deflate_images,
\* deflate_fonts, clean and linear; no document is created, no page is
\* rendered, and the output is the source document's pages under these
\* options.
C8_TextHeavyLevelFree ==
    OnPath("text-heavy") =>
        LET call == [target |-> "doc", garbage |-> 4, deflate |-> TRUE,
                     deflate_images |-> TRUE, deflate_fonts |-> TRUE,
                     clean |-> TRUE, linear |-> TRUE]
        IN  /\ saves = << call >>
            /\ new_doc.state = "none"
            /\ pixmaps = << >>
            /\ output_bytes # None =>
                  /\ output_bytes.options = call
                  /\ Len(output_bytes.pages) = Len(doc.pages)
                  /\ \A i \in 1..Len(doc.pages) :
                        /\ output_bytes.pages[i].blocks = doc.pages[i].blocks
                        /\ output_bytes.pages[i].images = << >>

\* A TextHeavy document has been compressed at a level other than Medium.
C8_Witness ==
    /\ OnPath("text-heavy")
    /\ output_bytes # None
    /\ compression_level = "High"

\* C9: whichever path ran, the output has as many pages as the input, and
\* output page i has the width and height of input page i.
C9_PageStructure ==
    output_bytes # None =>
        /\ Len(output_bytes.pages) = Len(doc.pages)
        /\ \A i \in 1..Len(doc.pages) :
              /\ output_bytes.pages[i].width = doc.pages[i].width
              /\ output_bytes.pages[i].height = doc.pages[i].height

\* An ImageHeavy document of three pages of different sizes has been compressed.
C9_Witness ==
    /\ OnPath("image-heavy")
    /\ output_bytes # None
    /\ Len(doc.pages) = 3
    /\ doc.pages[1].width # doc.pages[2].width
    /\ doc.pages[2].height # doc.pages[3].height

\* C10: the three counters partition the pages: they sum to total_pages, which
\* is the length of page_stats and of the document, each equals the number of
\* page_stats entries with its label, and page_stats[i] is the entry of page i.
C10_CountersPartition ==
    Analyzed =>
        /\ analysis.image_heavy_pages + analysis.text_heavy_pages + analysis.mixed_pages
              = analysis.total_pages
        /\ analysis.total_pages = Len(analysis.page_stats)
        /\ analysis.total_pages = Len(doc.pages)
        /\ analysis.image_heavy_pages = Cardinality(Labelled("image"))
        /\ analysis.text_heavy_pages = Cardinality(Labelled("text"))
        /\ analysis.mixed_pages = Cardinality(Labelled("mixed"))
        /\ \A i \in 1..Len(doc.pages) :
              /\ analysis.page_stats[i].type = RuleLabel(doc.pages[i])
              /\ analysis.page_stats[i].image_ratio.num
                    = (IF PageArea(doc.pages[i]) > 0
                       THEN TypeArea(doc.pages[i].blocks, 1) ELSE 0)

\* A document with a page of each label, in an order that is not the order
\* of the counters, has been analyzed.
C10_Witness ==
    /\ Analyzed
    /\ Len(doc.pages) = 3
    /\ analysis.page_stats[1].type = "mixed"
    /\ analysis.page_stats[2].type = "text"
    /\ analysis.page_stats[3].type = "image"

====
